---- MODULE Spec2Model ----
(***************************************************************************)
(* Scribe-AI: the session-scoped streaming transcription engine.           *)
(*                                                                         *)
(* Text is modelled as a sequence of atoms.  An atom is one character      *)
(* ("a", "b", " ", "\n", "[", "]") or one phrase the code searches for as  *)
(* a whole ("No speech detected", "Session not found", ...).  The body of  *)
(* a time-range header, "<S>s - <E>s]", is one atom; the header itself is  *)
(* the two atoms "[" and that body, so that the code's regular expressions *)
(* (which stop at the next "[") are computed as the code computes them.    *)
(***************************************************************************)
EXTENDS Integers, Sequences, FiniteSets, TLC

VARIABLES
    appSession,       \* the "sessions" table: id -> row
    transcriptChunk,  \* the "transcript_chunks" table: a set of rows
    nextId,           \* next primary key of transcript_chunks
    task,             \* the asynchronous units of work in flight
    submits,          \* number of handler invocations so far
    hist,             \* the last completed chunk handlings (history)
    merged,           \* per session: the texts whose merge has completed (history)
    updated,          \* the last transcript:updated event the server emitted (history)
    stopRequest,      \* POST /api/sessions/[id]/stop requests in flight
    summaryJob,       \* generateSessionSummary runs in flight
    stopped,          \* per session: a stop request has set PROCESSING (history)
    apiKey,           \* process.env.GEMINI_API_KEY is set
    geminiWs,         \* gemini-live-websocket activeSessions: id -> state of its entry
    restSessions,     \* gemini-live-rest activeSessions: the ids it holds
    startCount,       \* per session: the session:start events handled so far
    sessionMetadata,  \* sessionMetadata: id -> chunkDuration, 0 when there is no entry
    orphaned,         \* per session: its WebSockets no registry entry refers to, never closed
    closing,          \* per session: stopLiveSession has called close() on its open WebSocket
                      \* and the closing handshake has not ended
    audioWs,          \* the /api/audio-stream connection and its chunk buffer
    awaiting,         \* per unit of work: the audio-stream handler awaiting it
    now,              \* Date.now(), in ms
    binaries,         \* number of binary audio messages so far
    emitted,          \* the chunks the chunk buffer has emitted (history)
    paused,           \* per session: session:pause handled and not yet session:resume
    chunkIndexRef,    \* the client recorder's chunkIndexRef
    clientSending,    \* client ondataavailable handlers awaiting blob.arrayBuffer()
    notified,         \* the last session:paused / session:resumed the server relayed (history)
    disconnected      \* per session: the client socket that started it has disconnected

storeVars == <<appSession, transcriptChunk, nextId, task, submits, hist, merged, updated>>
lifeVars == <<stopRequest, summaryJob, stopped>>
backendVars ==
    <<apiKey, geminiWs, restSessions, startCount, sessionMetadata, orphaned, closing>>
bufferVars == <<audioWs, awaiting, now, binaries, emitted>>
clientVars == <<paused, chunkIndexRef, clientSending, notified, disconnected>>
streamVars == <<backendVars, bufferVars, clientVars>>
nonStoreVars == <<lifeVars, streamVars>>
vars == <<storeVars, nonStoreVars>>

-----------------------------------------------------------------------------
(* Bounds *)

MaxTasks == 2
MaxSubmits == 4
MaxIndex == 1
MaxStops == 2
MaxStarts == 1
MaxConnStarts == 2
MaxBinary == 2
MaxNow == 30000
TickMs == 30000

SessionIds == {"s1"}
\* the sessions of the specification with two recordings side by side
AllSessionIds == {"s1", "s2"}
TaskIds == 1..MaxTasks
Indices == 0..MaxIndex
StopIds == 1..MaxStops

-----------------------------------------------------------------------------
(* Strings *)

IsSpace(c) == c \in {" ", "\n"}

RECURSIVE TrimLeft(_)
TrimLeft(s) == IF s # <<>> /\ IsSpace(Head(s)) THEN TrimLeft(Tail(s)) ELSE s

RECURSIVE TrimRight(_)
TrimRight(s) ==
    IF s # <<>> /\ IsSpace(s[Len(s)]) THEN TrimRight(SubSeq(s, 1, Len(s) - 1)) ELSE s

Trim(s) == TrimRight(TrimLeft(s))

Includes(s, sub) ==
    \E p \in 1..(Len(s) - Len(sub) + 1) : SubSeq(s, p, p + Len(sub) - 1) = sub

\* `[${startTime}s - ${endTime}s]`
TimeRange(startTime, endTime) ==
    <<"[", ToString(startTime) \o "s - " \o ToString(endTime) \o "s]">>

\* new RegExp(`\\[${startTime}s - ${endTime}s\\]`, 'g').test(existingTranscript)
HasTimeRange(existingTranscript, startTime, endTime) ==
    Includes(existingTranscript, TimeRange(startTime, endTime))

\* the length of the match of [^\[]* at position p
RECURSIVE NotBracketRun(_, _)
NotBracketRun(s, p) ==
    IF p > Len(s) \/ s[p] = "[" THEN 0 ELSE 1 + NotBracketRun(s, p + 1)

\* existingTranscript.replace(/(\[Ss - Es\])([^\[]*)/g, (match, timeRange, existingText) => ...)
RECURSIVE ReplaceTimeRange(_, _, _, _, _)
ReplaceTimeRange(s, p, startTime, endTime, text) ==
    IF p > Len(s) THEN <<>>
    ELSE IF p + 1 <= Len(s) /\ SubSeq(s, p, p + 1) = TimeRange(startTime, endTime)
         THEN LET n == NotBracketRun(s, p + 2)
                  existingText == SubSeq(s, p + 2, p + 1 + n)
                  combinedText ==
                      IF Trim(existingText) # <<>>
                      THEN Trim(existingText) \o <<" ">> \o Trim(text)
                      ELSE Trim(text)
              IN  TimeRange(startTime, endTime) \o <<"\n">> \o combinedText
                      \o ReplaceTimeRange(s, p + 2 + n, startTime, endTime, text)
         ELSE <<s[p]>> \o ReplaceTimeRange(s, p + 1, startTime, endTime, text)

\* the running-transcript merge of both chunk handlers
UpdatedTranscript(existingTranscript, startTime, endTime, text) ==
    IF HasTimeRange(existingTranscript, startTime, endTime)
    THEN ReplaceTimeRange(existingTranscript, 1, startTime, endTime, text)
    ELSE IF existingTranscript # <<>>
         THEN existingTranscript \o <<"\n", "\n">> \o TimeRange(startTime, endTime)
                  \o <<"\n">> \o text
         ELSE TimeRange(startTime, endTime) \o <<"\n">> \o text

-----------------------------------------------------------------------------
(* Placeholder filters *)

\* transcript:chunk, "Filter out placeholder messages BEFORE storing"
IsPlaceholderTranscript(transcript) ==
    \/ Includes(transcript, <<"Transcription via Web Speech API">>)
    \/ Includes(transcript, <<"Audio chunk">>)
    \/ Includes(transcript, <<"recorded from">>)
    \/ Includes(transcript, <<"No speech detected">>)
    \/ Includes(transcript, <<"Transcription failed">>)

\* processAudioChunk, "Skip storing placeholder messages"
IsPlaceholder(finalTranscript) ==
    \/ Includes(finalTranscript, <<"Transcription via Web Speech API">>)
    \/ Includes(finalTranscript, <<"Audio chunk">>)
    \/ Includes(finalTranscript, <<"No speech detected">>)
    \/ Includes(finalTranscript, <<"Transcription failed">>)

\* processAudioChunk: the test a primary (WebSocket) result passes to become finalTranscript
AcceptedPrimary(transcribed) ==
    /\ Trim(transcribed) # <<>>
    /\ ~Includes(transcribed, <<"[", "Chunk">>)
    /\ ~Includes(transcribed, <<"Session not found">>)
    /\ ~Includes(transcribed, <<"Transcription error">>)
    /\ ~Includes(transcribed, <<"WebSocket not connected">>)
    /\ ~Includes(transcribed, <<"Timeout">>)

-----------------------------------------------------------------------------
(* The persistence collaborator *)

SessionStatus == {"RECORDING", "PAUSED", "PROCESSING", "COMPLETED", "FAILED"}

\* a row of "sessions"; row = "none" before creation, "deleted" after DELETE
NoSession == [row |-> "none", status |-> "RECORDING", transcript |-> <<>>, summary |-> <<>>]

NoChunk ==
    [id |-> 0, sessionId |-> "", chunkIndex |-> 0, transcript |-> <<>>,
     startTime |-> 0, endTime |-> 0]

\* prisma.transcriptChunk.findFirst({where: {sessionId, chunkIndex}}): the rows it may return
FindFirst(sessionId, chunkIndex) ==
    LET found == {r \in transcriptChunk :
                      r.sessionId = sessionId /\ r.chunkIndex = chunkIndex}
    IN  IF found = {} THEN {NoChunk} ELSE found

ChunkRows(sessionId, chunkIndex) ==
    {r \in transcriptChunk : r.sessionId = sessionId /\ r.chunkIndex = chunkIndex}

\* prisma.transcriptChunk.update({where: {id}, data: {transcript}})
UpdateChunk(id, transcript) ==
    {IF r.id = id THEN [r EXCEPT !.transcript = transcript] ELSE r : r \in transcriptChunk}

\* prisma.transcriptChunk.create({data})
CreateChunk(sessionId, chunkIndex, transcript, startTime, endTime) ==
    transcriptChunk \cup
        {[id |-> nextId, sessionId |-> sessionId, chunkIndex |-> chunkIndex,
          transcript |-> transcript, startTime |-> startTime, endTime |-> endTime]}

-----------------------------------------------------------------------------
(* Units of work *)

NotAwaiting == [kind |-> "none", now |-> 0]

\* late: the event was caused by a message of a WebSocket that stopLiveSession had closed
NotUpdated == [event |-> "none", transcript |-> <<>>, late |-> FALSE]

\* socket.emit("transcript:updated", {sessionId, transcript, chunkIndex})
TranscriptUpdated(transcript) ==
    [event |-> "transcript:updated", transcript |-> transcript, late |-> FALSE]

\* since: the number of binary messages received when audioBuffer was last emptied (history)
NoAudioWs ==
    [state |-> "none", sessionId |-> "", sessionStarted |-> FALSE, chunkIndex |-> 0,
     audioBuffer |-> 0, lastChunkTime |-> 0, since |-> 0]

IdleTask ==
    [pc |-> "idle", path |-> "", sessionId |-> "", chunkIndex |-> 0, text |-> <<>>,
     startTime |-> 0, endTime |-> 0, existingChunk |-> NoChunk,
     existingTranscript |-> <<>>, alone |-> TRUE,
     primary |-> FALSE, secondary |-> <<>>, emitter |-> 0,
     configured |-> 0, paused |-> FALSE, origin |-> "",
     primaryAttempts |-> 0, secondaryAttempts |-> 0, writes |-> 0, unheard |-> FALSE,
     timedOut |-> FALSE, secondaryRequests |-> 0]

Busy == {t \in TaskIds : task[t].pc # "idle"}

\* units of work are interchangeable: a new one takes the least free slot
Available(t) == task[t].pc = "idle" /\ awaiting[t].kind = "none"

Free(t) == Available(t) /\ \A u \in TaskIds : u < t => ~Available(u)

\* a unit of work begins: every unit already in flight now overlaps another one
Begin(t, rec) ==
    [u \in TaskIds |->
        IF u = t THEN [rec EXCEPT !.alone = (Busy = {})]
        ELSE IF task[u].pc # "idle" THEN [task[u] EXCEPT !.alone = FALSE]
        ELSE task[u]]

\* history: what a completed chunk handling left behind
Entry(tk, outcome, pre, post, chunks) ==
    [path |-> tk.path, sessionId |-> tk.sessionId, chunkIndex |-> tk.chunkIndex,
     text |-> tk.text, startTime |-> tk.startTime, endTime |-> tk.endTime,
     alone |-> tk.alone, outcome |-> outcome, pre |-> pre, post |-> post,
     primary |-> tk.primary, secondary |-> tk.secondary,
     configured |-> tk.configured, paused |-> tk.paused,
     primaryAttempts |-> tk.primaryAttempts, secondaryAttempts |-> tk.secondaryAttempts,
     writes |-> tk.writes, found |-> tk.existingChunk # NoChunk, unheard |-> tk.unheard,
     timedOut |-> tk.timedOut, secondaryRequests |-> tk.secondaryRequests,
     session |-> appSession[tk.sessionId].row,
     rows |-> {r.transcript : r \in {c \in chunks : c.sessionId = tk.sessionId
                                          /\ c.chunkIndex = tk.chunkIndex}},
     nrows |-> Cardinality({c \in chunks : c.sessionId = tk.sessionId
                                          /\ c.chunkIndex = tk.chunkIndex})]

Record(e) == IF Len(hist) < 2 THEN Append(hist, e) ELSE <<hist[2], e>>

-----------------------------------------------------------------------------
(* Inputs *)

\* texts of the concurrent chunk store
Transcripts == {<<"a">>, <<"b">>}
\* texts of the sequential chunk store: plain, bracketed as in "[music]", placeholder
SeqTranscripts == {<<"a">>, <<"[", "b", "]">>, <<"No speech detected">>}
PatchTranscripts == {<<>>, <<"a">>}

-----------------------------------------------------------------------------
(* POST /api/sessions, PATCH and DELETE /api/sessions/[id] *)

CreateSession(id) ==
    /\ appSession[id].row = "none"
    /\ appSession' = [appSession EXCEPT ![id] = [NoSession EXCEPT !.row = "present"]]
    /\ UNCHANGED <<transcriptChunk, nextId, task, submits, hist, merged, updated, nonStoreVars>>

\* data: the fields of updateSessionSchema the request body gives
PATCH(id, data) ==
    /\ appSession[id].row = "present"
    /\ appSession' = [appSession EXCEPT ![id] =
           [f \in DOMAIN appSession[id] |->
               IF f \in DOMAIN data THEN data[f] ELSE appSession[id][f]]]
    /\ hist' = <<>>
    /\ UNCHANGED <<transcriptChunk, nextId, task, submits, merged, updated, nonStoreVars>>

\* the delete of the session row alone, its transcript_chunks left in place
DELETEWithoutCascade(id) ==
    /\ appSession[id].row = "present"
    /\ appSession' = [appSession EXCEPT ![id] = [NoSession EXCEPT !.row = "deleted"]]
    /\ merged' = [merged EXCEPT ![id] = {}]
    /\ hist' = <<>>
    /\ UNCHANGED <<transcriptChunk, nextId, task, submits, updated, nonStoreVars>>

\* onDelete: Cascade removes the session's transcript_chunks
DELETE(id) ==
    /\ appSession[id].row = "present"
    /\ appSession' = [appSession EXCEPT ![id] = [NoSession EXCEPT !.row = "deleted"]]
    /\ transcriptChunk' = {r \in transcriptChunk : r.sessionId # id}
    /\ merged' = [merged EXCEPT ![id] = {}]
    /\ hist' = <<>>
    /\ UNCHANGED <<nextId, task, submits, updated, nonStoreVars>>

-----------------------------------------------------------------------------
(* The two chunk handlers: per-chunk record, then running transcript.      *)
(* Each action is one database call with the code that follows it up to    *)
(* the next await.                                                         *)

\* the handling tk of unit t ends; after processAudioChunk has resolved, the audio:chunk
\* handler goes on with its then(...)
FinishAs(t, tk, outcome, pre, post, chunks) ==
    /\ task' = [task EXCEPT ![t] =
           IF tk.origin = "audio:chunk" /\ outcome # "error"
           THEN [tk EXCEPT !.pc = "then"] ELSE IdleTask]
    /\ hist' = Record(Entry(tk, outcome, pre, post, chunks))

Finish(t, outcome, pre, post, chunks) == FinishAs(t, task[t], outcome, pre, post, chunks)

\* socket.on("transcript:chunk"): the placeholder filter and findFirst
TranscriptChunkEvent(t, sessionId, chunkIndex, transcript) ==
    LET rec == [IdleTask EXCEPT !.path = "transcript:chunk", !.sessionId = sessionId,
                    !.chunkIndex = chunkIndex, !.text = transcript,
                    !.startTime = chunkIndex * 30, !.endTime = chunkIndex * 30 + 30]
    IN  /\ Free(t)
        /\ submits < MaxSubmits
        /\ submits' = submits + 1
        /\ IF IsPlaceholderTranscript(transcript)
           THEN /\ hist' = Record(Entry([rec EXCEPT !.alone = (Busy = {})], "filtered",
                                        <<>>, <<>>, transcriptChunk))
                /\ UNCHANGED task
           ELSE /\ \E existingChunk \in FindFirst(sessionId, chunkIndex) :
                       task' = Begin(t, [rec EXCEPT !.pc = "chunk",
                                                    !.existingChunk = existingChunk])
                /\ UNCHANGED hist
        /\ UNCHANGED <<appSession, transcriptChunk, nextId, merged, updated, nonStoreVars>>

\* processAudioChunk from "Skip storing placeholder messages" on, finalTranscript
\* being the text the backend selection produced: the filter and findFirst
ProcessAudioChunkStore(t, sessionId, chunkIndex, chunkDuration, finalTranscript) ==
    LET rec == [IdleTask EXCEPT !.path = "processAudioChunk", !.sessionId = sessionId,
                    !.chunkIndex = chunkIndex, !.text = finalTranscript,
                    !.startTime = chunkIndex * chunkDuration,
                    !.endTime = chunkIndex * chunkDuration + chunkDuration]
    IN  /\ Free(t)
        /\ submits < MaxSubmits
        /\ AcceptedPrimary(finalTranscript)
        /\ submits' = submits + 1
        /\ IF IsPlaceholder(finalTranscript)
           THEN /\ hist' = Record(Entry([rec EXCEPT !.alone = (Busy = {})], "filtered",
                                        <<>>, <<>>, transcriptChunk))
                /\ UNCHANGED task
           ELSE /\ \E existingChunk \in FindFirst(sessionId, chunkIndex) :
                       task' = Begin(t, [rec EXCEPT !.pc = "chunk",
                                                    !.existingChunk = existingChunk])
                /\ UNCHANGED hist
        /\ UNCHANGED <<appSession, transcriptChunk, nextId, merged, updated, nonStoreVars>>

\* the text an existing row gets: append-if-new on transcript:chunk, replace on
\* processAudioChunk
NewChunkText(path, existing, text) ==
    IF path = "transcript:chunk"
    THEN IF Trim(existing) # <<>>
         THEN Trim(Trim(existing) \o <<" ">> \o Trim(text))
         ELSE Trim(Trim(text))
    ELSE text

\* no write is needed for an existing row
ChunkUpToDate(path, existing, text) ==
    IF path = "transcript:chunk"
    THEN Includes(Trim(existing), Trim(text))
    ELSE existing = text

\* the text a new row gets
CreatedChunkText(path, text) == IF path = "transcript:chunk" THEN Trim(text) ELSE text

\* transcriptChunk.update or transcriptChunk.create
StoreChunk(t) ==
    LET tk == task[t]
        ex == tk.existingChunk
    IN  /\ tk.pc = "chunk"
        /\ UNCHANGED <<appSession, submits, merged, updated, nonStoreVars>>
        /\ IF ex # NoChunk
           THEN IF ChunkUpToDate(tk.path, ex.transcript, tk.text)
                THEN IF tk.path = "transcript:chunk"
                     THEN \* "[SKIP] already contains this transcript": return
                          /\ Finish(t, "skipped", <<>>, <<>>, transcriptChunk)
                          /\ UNCHANGED <<transcriptChunk, nextId>>
                     ELSE /\ task' = [task EXCEPT ![t].pc = "session"]
                          /\ UNCHANGED <<transcriptChunk, nextId, hist>>
                ELSE IF \E r \in transcriptChunk : r.id = ex.id
                     THEN /\ transcriptChunk' =
                                 UpdateChunk(ex.id, NewChunkText(tk.path, ex.transcript, tk.text))
                          /\ task' = [task EXCEPT ![t].pc = "session", ![t].writes = @ + 1]
                          /\ UNCHANGED <<nextId, hist>>
                     ELSE \* record to update not found: the call throws
                          /\ Finish(t, "error", <<>>, <<>>, transcriptChunk)
                          /\ UNCHANGED <<transcriptChunk, nextId>>
           ELSE IF appSession[tk.sessionId].row = "present"
                THEN /\ transcriptChunk' =
                            CreateChunk(tk.sessionId, tk.chunkIndex,
                                        CreatedChunkText(tk.path, tk.text),
                                        tk.startTime, tk.endTime)
                     /\ nextId' = nextId + 1
                     /\ task' = [task EXCEPT ![t].pc = "session", ![t].writes = @ + 1]
                     /\ UNCHANGED hist
                ELSE \* transcript_chunks_sessionId_fkey is violated: the call throws
                     /\ Finish(t, "error", <<>>, <<>>, transcriptChunk)
                     /\ UNCHANGED <<transcriptChunk, nextId>>

\* prisma.appSession.findUnique({where: {id: sessionId}})
FindSession(t) ==
    LET tk == task[t]
    IN  /\ tk.pc = "session"
        /\ UNCHANGED <<appSession, transcriptChunk, nextId, submits, merged, nonStoreVars>>
        /\ IF appSession[tk.sessionId].row = "present"
           THEN /\ task' = [task EXCEPT ![t].pc = "transcript",
                               ![t].existingTranscript = appSession[tk.sessionId].transcript]
                /\ UNCHANGED <<hist, updated>>
           ELSE \* no session row: transcript:chunk goes on to its emit
                /\ Finish(t, "stored", <<>>, <<>>, transcriptChunk)
                /\ updated' = IF tk.path = "transcript:chunk"
                               THEN TranscriptUpdated(tk.text) ELSE updated

\* prisma.appSession.update({where: {id: sessionId}, data: {transcript: updatedTranscript}})
UpdateSessionTranscript(t) ==
    LET tk == task[t]
        updatedTranscript ==
            UpdatedTranscript(tk.existingTranscript, tk.startTime, tk.endTime, tk.text)
    IN  /\ tk.pc = "transcript"
        /\ UNCHANGED <<transcriptChunk, nextId, submits, nonStoreVars>>
        /\ IF appSession[tk.sessionId].row = "present"
           THEN /\ appSession' = [appSession EXCEPT ![tk.sessionId].transcript =
                                      updatedTranscript]
                /\ merged' = [merged EXCEPT ![tk.sessionId] = @ \cup {tk.text}]
                /\ FinishAs(t, [tk EXCEPT !.writes = @ + 1], "merged",
                            appSession[tk.sessionId].transcript, updatedTranscript,
                            transcriptChunk)
                /\ updated' = IF tk.path = "transcript:chunk"
                               THEN TranscriptUpdated(tk.text) ELSE updated
           ELSE /\ Finish(t, "error", <<>>, <<>>, transcriptChunk)
                /\ UNCHANGED <<appSession, merged, updated>>

-----------------------------------------------------------------------------
(* The transcription backends: gemini-live-websocket (primary) and           *)
(* gemini-live-rest (secondary)                                              *)

CHUNK_DURATION_MS == 30000
MaxBufferBytes == 500000
DefaultChunkDuration == 30
TabChunkDuration == 5

\* `[Chunk ${chunkIndex}: ${what}]`
ChunkNote(what) == <<"[", "Chunk", what, "]">>

\* processAudioChunk: the test a REST result passes when no session exists anywhere
AcceptedSecondary(transcribed) ==
    /\ Trim(transcribed) # <<>>
    /\ ~Includes(transcribed, <<"[", "Chunk">>)
    /\ ~Includes(transcribed, <<"Session not found">>)
    /\ ~Includes(transcribed, <<"Transcription error">>)
    /\ ~Includes(transcribed, <<"No transcript">>)

\* the fallback test without its "[Chunk" and "No transcript" checks
AcceptedFallbackAnyText(restTranscribed) == Trim(restTranscribed) # <<>>

\* processAudioChunk: the test a REST result passes after the WebSocket result failed
AcceptedFallback(restTranscribed) ==
    /\ Trim(restTranscribed) # <<>>
    /\ ~Includes(restTranscribed, <<"[", "Chunk">>)
    /\ ~Includes(restTranscribed, <<"No transcript">>)

\* gemini-live-websocket hasActiveSession
HasActiveSession(sessionId) == geminiWs[sessionId] = "open"

\* gemini-live-rest hasActiveSession
HasActiveSessionREST(sessionId) == sessionId \in restSessions

\* both startLiveSession functions throw exactly when the key is not set
StartLiveSessionThrows == ~apiKey

StartLiveSessionRESTThrows == ~apiKey

\* what the REST endpoint answers
SecondaryAnswers == {<<"a">>, <<>>}

\* socket.on("session:start")
HandleSessionStart(sessionId, recordingMode) ==
    /\ startCount' = [startCount EXCEPT ![sessionId] = @ + 1]
    /\ sessionMetadata' = [sessionMetadata EXCEPT ![sessionId] =
           IF recordingMode = "TAB" THEN TabChunkDuration ELSE DefaultChunkDuration]
    /\ IF ~StartLiveSessionThrows
       THEN \* new WebSocket(wsUrl) and activeSessions.set: an entry the map already
            \* holds is replaced, and nothing closes its socket
            /\ geminiWs' = [geminiWs EXCEPT ![sessionId] = "connecting"]
            /\ orphaned' = [orphaned EXCEPT ![sessionId] =
                   IF geminiWs[sessionId] \in {"connecting", "open"} THEN @ + 1 ELSE @]
            /\ UNCHANGED restSessions
       ELSE /\ restSessions' = IF ~StartLiveSessionRESTThrows
                               THEN restSessions \cup {sessionId} ELSE restSessions
            /\ UNCHANGED <<geminiWs, orphaned>>
    /\ UNCHANGED <<storeVars, lifeVars, apiKey, closing, bufferVars, clientVars>>

\* session:start as the shipped client sends it, once per recording
SessionStart(sessionId, recordingMode) ==
    /\ startCount[sessionId] < MaxStarts
    /\ HandleSessionStart(sessionId, recordingMode)

\* session:stop clearing the maps where the code deletes the session's own entries
SessionStopClearing(sessionId) ==
    /\ sessionMetadata[sessionId] # 0
    /\ sessionMetadata' = [id \in DOMAIN sessionMetadata |-> 0]
    /\ geminiWs' = [id \in DOMAIN geminiWs |-> "none"]
    /\ restSessions' = {}
    /\ closing' = [id \in DOMAIN closing |-> closing[id] \/ geminiWs[id] = "open"]
    /\ UNCHANGED <<storeVars, lifeVars, apiKey, startCount, orphaned, bufferVars, clientVars>>

\* socket.on("session:stop")
SessionStop(sessionId) ==
    /\ sessionMetadata[sessionId] # 0
    /\ sessionMetadata' = [sessionMetadata EXCEPT ![sessionId] = 0]
    /\ geminiWs' = [geminiWs EXCEPT ![sessionId] = "none"]
    /\ restSessions' = restSessions \ {sessionId}
    /\ closing' = [closing EXCEPT ![sessionId] = @ \/ geminiWs[sessionId] = "open"]
    /\ UNCHANGED <<storeVars, lifeVars, apiKey, startCount, orphaned, bufferVars, clientVars>>

\* geminiWs.on("open")
GeminiWsOpen(sessionId) ==
    /\ geminiWs[sessionId] = "connecting"
    /\ geminiWs' = [geminiWs EXCEPT ![sessionId] = "open"]
    /\ UNCHANGED <<storeVars, lifeVars, apiKey, restSessions, startCount, sessionMetadata,
                   orphaned, closing, bufferVars, clientVars>>

\* geminiWs.on("error") and geminiWs.on("close"): the entry stays, not connected
GeminiWsClose(sessionId) ==
    /\ geminiWs[sessionId] \in {"connecting", "open"}
    /\ geminiWs' = [geminiWs EXCEPT ![sessionId] = "closed"]
    /\ UNCHANGED <<storeVars, lifeVars, apiKey, restSessions, startCount, sessionMetadata,
                   orphaned, closing, bufferVars, clientVars>>

\* geminiWs.on("message") of a WebSocket that stopLiveSession has closed, with a transcript
\* the backend had sent before it saw the close: the handler emits transcript:updated;
\* removeAllListeners() has left nobody waiting on the session's emitter, so a chunk
\* that was sent before the stop and still waits does not get the text (history: unheard)
WsTranscriptClosing(sessionId, transcript) ==
    /\ closing[sessionId]
    /\ Trim(transcript) # <<>>
    /\ updated' = [TranscriptUpdated(transcript) EXCEPT !.late = TRUE]
    /\ task' = [t \in TaskIds |->
           IF /\ task[t].pc = "wsWait" /\ task[t].sessionId = sessionId
              /\ AcceptedPrimary(transcript) /\ ~IsPlaceholder(transcript)
           THEN [task[t] EXCEPT !.unheard = TRUE] ELSE task[t]]
    /\ UNCHANGED <<appSession, transcriptChunk, nextId, submits, hist, merged, nonStoreVars>>

\* the closing handshake of that WebSocket ends
GeminiWsClosed(sessionId) ==
    /\ closing[sessionId]
    /\ closing' = [closing EXCEPT ![sessionId] = FALSE]
    /\ UNCHANGED <<storeVars, lifeVars, apiKey, geminiWs, restSessions, startCount,
                   sessionMetadata, orphaned, bufferVars, clientVars>>

-----------------------------------------------------------------------------
(* processAudioChunk: the choice of the backend                              *)

\* the call: hasActiveSession of both backends decides the first backend function
ProcessAudioChunk(sessionId, chunkIndex, startTime, endTime, secondary, whilePaused) ==
    LET websocketSessionExists == HasActiveSession(sessionId)
        restSessionExists == HasActiveSessionREST(sessionId)
        sessionExists == websocketSessionExists \/ restSessionExists
    IN  [IdleTask EXCEPT !.path = "processAudioChunk", !.sessionId = sessionId,
            !.chunkIndex = chunkIndex, !.startTime = startTime, !.endTime = endTime,
            !.primary = websocketSessionExists, !.secondary = secondary,
            !.configured = sessionMetadata[sessionId], !.paused = whilePaused,
            !.pc = IF ~sessionExists THEN "restOnly" ELSE "ws"]

\* finalTranscript is set: "Skip storing placeholder messages", then findFirst
ToStore(t, tk, finalTranscript) ==
    IF IsPlaceholder(finalTranscript)
    THEN FinishAs(t, tk, "filtered", <<>>, <<>>, transcriptChunk)
    ELSE /\ \E existingChunk \in FindFirst(tk.sessionId, tk.chunkIndex) :
                task' = [task EXCEPT ![t] = [tk EXCEPT !.pc = "chunk", !.text = finalTranscript,
                                                      !.existingChunk = existingChunk]]
         /\ UNCHANGED hist

\* the WebSocket result is used, or the REST function is called as the fallback
AfterPrimary(t, tk, transcribed) ==
    IF AcceptedPrimary(transcribed)
    THEN ToStore(t, tk, transcribed)
    ELSE /\ task' = [task EXCEPT ![t] = [tk EXCEPT !.pc = "restFallback"]]
         /\ UNCHANGED hist

\* gemini-live-websocket streamAudioChunk up to the wait for the transcript
WsStreamAudioChunk(t) ==
    LET sessionId == task[t].sessionId
        tk == [task[t] EXCEPT !.primaryAttempts = @ + 1]
    IN  /\ task[t].pc = "ws"
        /\ IF geminiWs[sessionId] = "none"
           THEN AfterPrimary(t, tk, ChunkNote("Session not found"))
           ELSE IF geminiWs[sessionId] # "open"
                THEN AfterPrimary(t, tk, ChunkNote("WebSocket not connected"))
                ELSE /\ task' = [task EXCEPT ![t] = [tk EXCEPT !.pc = "wsWait",
                                                     !.emitter = startCount[sessionId]]]
                     /\ UNCHANGED hist
        /\ UNCHANGED <<appSession, transcriptChunk, nextId, submits, merged, updated, nonStoreVars>>

\* geminiWs.on("message") with a transcript: transcript:updated is emitted to the
\* client, and eventEmitter.emit("transcript") resolves every streamAudioChunk waiting
\* on this session's emitter
WsTranscript(sessionId, transcript) ==
    LET waiting == {t \in TaskIds : /\ task[t].pc = "wsWait"
                                    /\ task[t].sessionId = sessionId
                                    /\ task[t].emitter = startCount[sessionId]}
    IN  /\ geminiWs[sessionId] = "open"
        /\ waiting # {}
        /\ Trim(transcript) # <<>>
        /\ updated' = TranscriptUpdated(transcript)
        /\ task' = [t \in TaskIds |->
               IF t \in waiting
               THEN [task[t] EXCEPT !.pc = "wsGot", !.text = transcript]
               ELSE task[t]]
        /\ UNCHANGED <<appSession, transcriptChunk, nextId, submits, hist, merged,
                       nonStoreVars>>

\* processAudioChunk resumes with the WebSocket transcript
WsResult(t) ==
    /\ task[t].pc = "wsGot"
    /\ AfterPrimary(t, task[t], task[t].text)
    /\ UNCHANGED <<appSession, transcriptChunk, nextId, submits, merged, updated, nonStoreVars>>

\* streamAudioChunk waiting with no timer set
WsTimeoutUnset(t) ==
    /\ FALSE
    /\ UNCHANGED vars

\* the 15 s timer of streamAudioChunk
WsTimeout(t) ==
    /\ task[t].pc = "wsWait"
    /\ AfterPrimary(t, [task[t] EXCEPT !.timedOut = TRUE], ChunkNote("Timeout"))
    /\ UNCHANGED <<appSession, transcriptChunk, nextId, submits, merged, updated, nonStoreVars>>

\* gemini-live-rest streamAudioChunk
StreamAudioChunkREST(sessionId, secondary) ==
    IF sessionId \notin restSessions THEN ChunkNote("Session not found")
    ELSE IF ~apiKey THEN ChunkNote("Transcription error")
    ELSE IF secondary = <<>> THEN ChunkNote("No transcript")
    ELSE secondary

\* the REST call of processAudioChunk and the test of its result; streamAudioChunk emits
\* transcript:updated itself when the endpoint gave a transcript
RestStreamAudioChunk(t) ==
    LET tk == [task[t] EXCEPT !.secondaryAttempts = @ + 1,
                              !.secondaryRequests =
                                  IF task[t].sessionId \in restSessions /\ apiKey
                                  THEN @ + 1 ELSE @]
        transcribed == StreamAudioChunkREST(tk.sessionId, tk.secondary)
        accepted == IF tk.pc = "restOnly" THEN AcceptedSecondary(transcribed)
                    ELSE AcceptedFallback(transcribed)
    IN  /\ tk.pc \in {"restOnly", "restFallback"}
        /\ IF accepted
           THEN ToStore(t, tk, transcribed)
           ELSE FinishAs(t, tk, "dropped", <<>>, <<>>, transcriptChunk)
        /\ updated' = IF transcribed = tk.secondary /\ tk.secondary # <<>>
                       THEN TranscriptUpdated(transcribed) ELSE updated
        /\ UNCHANGED <<appSession, transcriptChunk, nextId, submits, merged, nonStoreVars>>

-----------------------------------------------------------------------------
(* The client recorder, pause and resume, and socket.on("audio:chunk")       *)

NotNotified == [event |-> "none", sessionId |-> "", started |-> FALSE, redundant |-> FALSE]

\* socket.on("session:pause"): session:paused is relayed to the session's room;
\* started: session:start has been handled for it; redundant: it was paused already
SessionPauseEvent(sessionId) ==
    /\ paused' = [paused EXCEPT ![sessionId] = TRUE]
    /\ notified' = [event |-> "session:paused", sessionId |-> sessionId,
                    started |-> sessionMetadata[sessionId] # 0,
                    redundant |-> paused[sessionId]]
    /\ UNCHANGED <<storeVars, lifeVars, backendVars, bufferVars, chunkIndexRef, clientSending,
                   disconnected>>

\* socket.on("session:resume"): session:resumed is relayed to the session's room;
\* redundant: it was not paused
SessionResumeEvent(sessionId) ==
    /\ paused' = [paused EXCEPT ![sessionId] = FALSE]
    /\ notified' = [event |-> "session:resumed", sessionId |-> sessionId,
                    started |-> sessionMetadata[sessionId] # 0,
                    redundant |-> ~paused[sessionId]]
    /\ UNCHANGED <<storeVars, lifeVars, backendVars, bufferVars, chunkIndexRef, clientSending,
                   disconnected>>

\* pauseRecording of the recording client: returns when isPaused, else isPausedRef is
\* set and session:pause is emitted
SessionPause(sessionId) ==
    /\ ~paused[sessionId]
    /\ SessionPauseEvent(sessionId)

\* resumeRecording of the recording client: returns when not isPaused
SessionResume(sessionId) ==
    /\ paused[sessionId]
    /\ SessionResumeEvent(sessionId)

\* socket.on("disconnect") for the socket that sent session:start: the handler logs the
\* event and does nothing else
Disconnect(sessionId) ==
    /\ startCount[sessionId] > 0
    /\ ~disconnected[sessionId]
    /\ disconnected' = [disconnected EXCEPT ![sessionId] = TRUE]
    /\ UNCHANGED <<storeVars, lifeVars, backendVars, bufferVars, paused, chunkIndexRef,
                   clientSending, notified>>

\* mediaRecorder.ondataavailable up to await blob.arrayBuffer(): only if not paused
DataAvailable(sessionId) ==
    /\ ~paused[sessionId]
    /\ chunkIndexRef + clientSending <= MaxIndex
    /\ clientSending' = clientSending + 1
    /\ UNCHANGED <<storeVars, lifeVars, backendVars, bufferVars, paused, chunkIndexRef,
                   notified, disconnected>>

\* ondataavailable resumes: chunkIndexRef.current++ and emit("audio:chunk"); the
\* server's handler takes the duration from sessionMetadata and starts
\* processAudioChunk without awaiting it
AudioChunk(t, sessionId, secondary) ==
    LET chunkIndex == chunkIndexRef
        chunkDuration == IF sessionMetadata[sessionId] # 0
                         THEN sessionMetadata[sessionId] ELSE DefaultChunkDuration
        startTime == chunkIndex * chunkDuration
        endTime == startTime + chunkDuration
    IN  /\ clientSending > 0
        /\ Free(t)
        /\ clientSending' = clientSending - 1
        /\ chunkIndexRef' = chunkIndexRef + 1
        /\ task' = Begin(t, [ProcessAudioChunk(sessionId, chunkIndex, startTime, endTime,
                                               secondary, paused[sessionId])
                                 EXCEPT !.origin = "audio:chunk"])
        /\ UNCHANGED <<appSession, transcriptChunk, nextId, submits, hist, merged, updated,
                       lifeVars, backendVars, bufferVars, paused, notified, disconnected>>

\* then(...) of the audio:chunk handler: findFirst, and transcript:updated with the
\* stored text of the chunk if there is one and it is no placeholder
AudioChunkThen(t) ==
    /\ task[t].pc = "then"
    /\ task' = [task EXCEPT ![t] = IdleTask]
    /\ \E chunk \in FindFirst(task[t].sessionId, task[t].chunkIndex) :
           updated' = IF /\ chunk # NoChunk
                         /\ ~Includes(chunk.transcript, <<"Transcription via Web Speech API">>)
                         /\ ~Includes(chunk.transcript, <<"Audio chunk">>)
                      THEN TranscriptUpdated(chunk.transcript) ELSE updated
    /\ UNCHANGED <<appSession, transcriptChunk, nextId, submits, hist, merged, nonStoreVars>>

-----------------------------------------------------------------------------
(* The chunk buffer of /api/audio-stream: handleAudioWebSocket, sendAudioChunk *)

AudioSizes == {200000, 600000}

\* sendAudioChunk(audioBuffer, chunkIndex++, sessionId, io): the chunk is emitted and
\* (history: kind is the handler that sent it, from and upTo the first and the last binary
\* message in its bytes)
\* processAudioChunk is awaited by the handler
SendAudioChunk(t, kind, secondary) ==
    LET chunkIndex == audioWs.chunkIndex
        sessionId == audioWs.sessionId
        chunkDuration == DefaultChunkDuration
        startTime == chunkIndex * chunkDuration
        endTime == startTime + chunkDuration
    IN  /\ Free(t)
        /\ emitted' = Append(emitted,
               [sessionId |-> sessionId, chunkIndex |-> chunkIndex,
                startTime |-> startTime, endTime |-> endTime,
                configured |-> sessionMetadata[sessionId], paused |-> paused[sessionId],
                kind |-> kind, from |-> audioWs.since + 1,
                upTo |-> IF kind = "binary" THEN binaries + 1 ELSE binaries])
        /\ task' = Begin(t, ProcessAudioChunk(sessionId, chunkIndex, startTime, endTime,
                                              secondary, paused[sessionId]))
        /\ awaiting' = [awaiting EXCEPT ![t] = [kind |-> kind, now |-> now]]

\* the upgrade of /api/audio-stream?sessionId=...
AudioWsConnect(sessionId) ==
    /\ audioWs.state = "none"
    /\ audioWs' = [NoAudioWs EXCEPT !.state = "open", !.sessionId = sessionId,
                                    !.lastChunkTime = now]
    /\ UNCHANGED <<storeVars, lifeVars, backendVars, awaiting, now, binaries, emitted,
                   clientVars>>

\* ws.on("message") with {type: "start"}
AudioWsStart ==
    /\ audioWs.state = "open"
    /\ ~audioWs.sessionStarted
    /\ audioWs' = [audioWs EXCEPT !.sessionStarted = TRUE]
    /\ UNCHANGED <<storeVars, lifeVars, backendVars, awaiting, now, binaries, emitted,
                   clientVars>>

\* ws.on("message") with binary audio data, up to the await
AudioWsBinary(size, secondary) ==
    LET audioBuffer == audioWs.audioBuffer + size
    IN  /\ audioWs.state = "open"
        /\ binaries < MaxBinary
        /\ binaries' = binaries + 1
        /\ IF /\ (now - audioWs.lastChunkTime >= CHUNK_DURATION_MS
                    \/ audioBuffer > MaxBufferBytes)
              /\ audioBuffer > 0 /\ audioWs.sessionStarted
           THEN /\ \E t \in TaskIds : SendAudioChunk(t, "binary", secondary)
                /\ audioWs' = [audioWs EXCEPT !.audioBuffer = audioBuffer,
                                              !.chunkIndex = @ + 1]
           ELSE /\ audioWs' = [audioWs EXCEPT !.audioBuffer = audioBuffer]
                /\ UNCHANGED <<task, awaiting, emitted>>
        /\ UNCHANGED <<appSession, transcriptChunk, nextId, submits, hist, merged, updated,
                       lifeVars, backendVars, now, clientVars>>

\* ws.on("message") with {type: "stop"}, up to the await or to ws.close()
AudioWsStop(secondary) ==
    /\ audioWs.state = "open"
    /\ \A t \in TaskIds : awaiting[t].kind # "stop"
    /\ IF audioWs.audioBuffer > 0
       THEN /\ \E t \in TaskIds : SendAudioChunk(t, "stop", secondary)
            /\ audioWs' = [audioWs EXCEPT !.chunkIndex = @ + 1]
       ELSE /\ audioWs' = [audioWs EXCEPT !.state = "closing"]
            /\ UNCHANGED <<task, awaiting, emitted>>
    /\ UNCHANGED <<appSession, transcriptChunk, nextId, submits, hist, merged, updated,
                   lifeVars, backendVars, now, binaries, clientVars>>

\* a message handler resumes after await sendAudioChunk(...): the buffer is reset
AudioWsResume(t) ==
    /\ awaiting[t].kind # "none"
    /\ task[t].pc = "idle"
    /\ awaiting' = [awaiting EXCEPT ![t] = NotAwaiting]
    /\ audioWs' =
           IF awaiting[t].kind = "binary"
           THEN [audioWs EXCEPT !.audioBuffer = 0, !.lastChunkTime = awaiting[t].now,
                                !.since = binaries]
           ELSE IF awaiting[t].kind = "stop"
           THEN [audioWs EXCEPT !.audioBuffer = 0, !.since = binaries,
                                !.state = IF @ = "open" THEN "closing" ELSE @]
           ELSE audioWs
    /\ UNCHANGED <<storeVars, lifeVars, backendVars, now, binaries, emitted, clientVars>>

\* ws.on("close"): the client closed, or ws.close() of the stop handler
AudioWsClose(secondary) ==
    /\ audioWs.state \in {"open", "closing"}
    /\ IF audioWs.audioBuffer > 0 /\ audioWs.sessionStarted
       THEN /\ \E t \in TaskIds : SendAudioChunk(t, "close", secondary)
            /\ audioWs' = [audioWs EXCEPT !.state = "closed", !.chunkIndex = @ + 1]
       ELSE /\ audioWs' = [audioWs EXCEPT !.state = "closed"]
            /\ UNCHANGED <<task, awaiting, emitted>>
    /\ UNCHANGED <<appSession, transcriptChunk, nextId, submits, hist, merged, updated,
                   lifeVars, backendVars, now, binaries, clientVars>>

\* time passes
Tick ==
    /\ now < MaxNow
    /\ now' = now + TickMs
    /\ UNCHANGED <<storeVars, lifeVars, backendVars, audioWs, awaiting, binaries, emitted,
                   clientVars>>

-----------------------------------------------------------------------------
(* POST /api/sessions/[id]/stop and generateSessionSummary.  Request k starts *)
(* summary run k.                                                            *)

\* response: the status of the NextResponse, 0 while there is none
IdleStop == [pc |-> "idle", id |-> "", response |-> 0]

\* called: generateSummary has been invoked, with input as its argument
IdleSummary ==
    [pc |-> "idle", sessionId |-> "", summary |-> <<>>, called |-> FALSE, input |-> <<>>]

NoTranscriptAvailable == <<"No transcript available.">>

\* the test for real speech content left out
HasRealTranscriptUntested(sessionId) == TRUE

\* chunks.some(chunk => ...) over the session's rows
HasRealTranscript(sessionId) ==
    \E chunk \in transcriptChunk :
        /\ chunk.sessionId = sessionId
        /\ LET text == Trim(chunk.transcript)
           IN  /\ Len(text) > 0
               /\ Head(text) # "["
               /\ ~Includes(text, <<"Audio transcription service not configured">>)
               /\ ~Includes(text, <<"Transcription failed">>)
               /\ ~Includes(text, <<"No speech detected">>)
               /\ ~Includes(text, <<"browser-based transcription placeholder">>)

\* findMany({where: {sessionId}, orderBy: {chunkIndex: "asc"}}); rows of one index in
\* the order of their ids
RECURSIVE OrderedChunks(_)
OrderedChunks(rows) ==
    IF rows = {} THEN <<>>
    ELSE LET first == CHOOSE r \in rows : \A q \in rows :
                          \/ r.chunkIndex < q.chunkIndex
                          \/ r.chunkIndex = q.chunkIndex /\ r.id <= q.id
         IN  <<first>> \o OrderedChunks(rows \ {first})

\* chunks.map(chunk => `[${chunk.startTime}s - ${chunk.endTime}s]\n${chunk.transcript}`)
\*       .join("\n\n")
RECURSIVE JoinChunks(_)
JoinChunks(chunks) ==
    IF chunks = <<>> THEN <<>>
    ELSE TimeRange(Head(chunks).startTime, Head(chunks).endTime) \o <<"\n">>
             \o Head(chunks).transcript
             \o (IF Len(chunks) > 1 THEN <<"\n", "\n">> ELSE <<>>)
             \o JoinChunks(Tail(chunks))

FullTranscript(sessionId) ==
    JoinChunks(OrderedChunks({r \in transcriptChunk : r.sessionId = sessionId}))

FreeStop(k) ==
    stopRequest[k].pc = "idle" /\ \A j \in StopIds : j < k => stopRequest[j].pc # "idle"

\* prisma.appSession.findUnique({where: {id}}); 404 when there is no row
StopFindUnique(k, id) ==
    /\ FreeStop(k)
    /\ stopRequest' = [stopRequest EXCEPT ![k] =
           IF appSession[id].row = "present"
           THEN [pc |-> "update", id |-> id, response |-> 0]
           ELSE [pc |-> "done", id |-> id, response |-> 404]]
    /\ UNCHANGED <<storeVars, summaryJob, stopped, streamVars>>

\* the route with await generateSessionSummary(id) in place of the call it does not
\* wait for: no response yet when the summary run starts
StopUpdateAwaitingSummary(k) ==
    LET id == stopRequest[k].id
    IN  /\ stopRequest[k].pc = "update"
        /\ stopRequest' = [stopRequest EXCEPT ![k].pc = "done"]
        /\ UNCHANGED <<transcriptChunk, nextId, task, submits, hist, merged, updated, streamVars>>
        /\ IF appSession[id].row = "present"
           THEN /\ appSession' = [appSession EXCEPT ![id].status = "PROCESSING"]
                /\ summaryJob' = [summaryJob EXCEPT ![k] =
                       [IdleSummary EXCEPT !.pc = "findMany", !.sessionId = id]]
                /\ stopped' = [stopped EXCEPT ![id] = TRUE]
           ELSE UNCHANGED <<appSession, summaryJob, stopped>>

\* prisma.appSession.update({data: {status: "PROCESSING"}}), then generateSessionSummary(id)
\* is started and not awaited, and the route answers {success: true}; the update throws
\* (500) when the row is gone
StopUpdate(k) ==
    LET id == stopRequest[k].id
    IN  /\ stopRequest[k].pc = "update"
        /\ stopRequest' = [stopRequest EXCEPT ![k].pc = "done",
               ![k].response = IF appSession[id].row = "present" THEN 200 ELSE 500]
        /\ UNCHANGED <<transcriptChunk, nextId, task, submits, hist, merged, updated, streamVars>>
        /\ IF appSession[id].row = "present"
           THEN /\ appSession' = [appSession EXCEPT ![id].status = "PROCESSING"]
                /\ summaryJob' = [summaryJob EXCEPT ![k] =
                       [IdleSummary EXCEPT !.pc = "findMany", !.sessionId = id]]
                /\ stopped' = [stopped EXCEPT ![id] = TRUE]
           ELSE UNCHANGED <<appSession, summaryJob, stopped>>

\* prisma.transcriptChunk.findMany and the test for real speech content
SummaryFindMany(k) ==
    /\ summaryJob[k].pc = "findMany"
    /\ summaryJob' = [summaryJob EXCEPT ![k] =
           IF /\ HasRealTranscript(summaryJob[k].sessionId)
              /\ Trim(FullTranscript(summaryJob[k].sessionId)) # <<>>
           THEN [@ EXCEPT !.pc = "generate", !.called = TRUE,
                          !.input = FullTranscript(summaryJob[k].sessionId)]
           ELSE [@ EXCEPT !.pc = "update", !.summary = NoTranscriptAvailable]]
    /\ UNCHANGED <<storeVars, stopRequest, stopped, streamVars>>

\* generateSummary(fullTranscript): the summarizer answers, or throws
SummaryGenerate(k, ok) ==
    /\ summaryJob[k].pc = "generate"
    /\ summaryJob' = [summaryJob EXCEPT ![k] =
           IF ok THEN [@ EXCEPT !.pc = "update", !.summary = <<"summary">>]
           ELSE [@ EXCEPT !.pc = "failed"]]
    /\ UNCHANGED <<storeVars, stopRequest, stopped, streamVars>>

\* the final update writing FAILED where the code writes COMPLETED
SummaryUpdateAsFailed(k) ==
    LET id == summaryJob[k].sessionId
    IN  /\ summaryJob[k].pc = "update"
        /\ UNCHANGED <<transcriptChunk, nextId, task, submits, hist, merged, updated,
                       stopRequest, stopped, streamVars>>
        /\ IF appSession[id].row = "present"
           THEN /\ appSession' = [appSession EXCEPT ![id].status = "FAILED",
                                                    ![id].summary = summaryJob[k].summary]
                /\ summaryJob' = [summaryJob EXCEPT ![k].pc = "done"]
           ELSE /\ summaryJob' = [summaryJob EXCEPT ![k].pc = "failed"]
                /\ UNCHANGED appSession

\* prisma.appSession.update({data: {summary, status: "COMPLETED"}}); throws when the row
\* is gone
SummaryUpdate(k) ==
    LET id == summaryJob[k].sessionId
    IN  /\ summaryJob[k].pc = "update"
        /\ UNCHANGED <<transcriptChunk, nextId, task, submits, hist, merged, updated,
                       stopRequest, stopped, streamVars>>
        /\ IF appSession[id].row = "present"
           THEN /\ appSession' = [appSession EXCEPT ![id].status = "COMPLETED",
                                                    ![id].summary = summaryJob[k].summary]
                /\ summaryJob' = [summaryJob EXCEPT ![k].pc = "done"]
           ELSE /\ summaryJob' = [summaryJob EXCEPT ![k].pc = "failed"]
                /\ UNCHANGED appSession

\* catch: prisma.appSession.update({data: {status: "FAILED"}}), then rethrow
SummaryFailed(k) ==
    LET id == summaryJob[k].sessionId
    IN  /\ summaryJob[k].pc = "failed"
        /\ summaryJob' = [summaryJob EXCEPT ![k].pc = "done"]
        /\ UNCHANGED <<transcriptChunk, nextId, task, submits, hist, merged, updated,
                       stopRequest, stopped, streamVars>>
        /\ IF appSession[id].row = "present"
           THEN appSession' = [appSession EXCEPT ![id].status = "FAILED"]
           ELSE UNCHANGED appSession

-----------------------------------------------------------------------------
(* Specification of the chunk store: the handlers interleave at their awaits *)

Init ==
    /\ appSession = [id \in AllSessionIds |-> NoSession]
    /\ transcriptChunk = {}
    /\ nextId = 1
    /\ task = [t \in TaskIds |-> IdleTask]
    /\ submits = 0
    /\ hist = <<>>
    /\ merged = [id \in AllSessionIds |-> {}]
    /\ updated = NotUpdated
    /\ stopRequest = [k \in StopIds |-> IdleStop]
    /\ summaryJob = [k \in StopIds |-> IdleSummary]
    /\ stopped = [id \in AllSessionIds |-> FALSE]
    /\ apiKey \in BOOLEAN
    /\ geminiWs = [id \in AllSessionIds |-> "none"]
    /\ restSessions = {}
    /\ startCount = [id \in AllSessionIds |-> 0]
    /\ orphaned = [id \in AllSessionIds |-> 0]
    /\ closing = [id \in AllSessionIds |-> FALSE]
    /\ sessionMetadata = [id \in AllSessionIds |-> 0]
    /\ audioWs = NoAudioWs
    /\ awaiting = [t \in TaskIds |-> NotAwaiting]
    /\ now = 0
    /\ binaries = 0
    /\ emitted = <<>>
    /\ paused = [id \in AllSessionIds |-> FALSE]
    /\ chunkIndexRef = 0
    /\ clientSending = 0
    /\ notified = NotNotified
    /\ disconnected = [id \in AllSessionIds |-> FALSE]

\* a deployment whose GEMINI_API_KEY is set
InitKey == Init /\ apiKey

Next ==
    \/ \E id \in SessionIds : CreateSession(id)
    \/ \E id \in SessionIds : DELETE(id)
    \/ \E t \in TaskIds, id \in SessionIds, i \in {0}, x \in Transcripts :
           TranscriptChunkEvent(t, id, i, x)
    \/ \E t \in TaskIds, id \in SessionIds, i \in {0}, x \in Transcripts :
           ProcessAudioChunkStore(t, id, i, 30, x)
    \/ \E t \in TaskIds : StoreChunk(t)
    \/ \E t \in TaskIds : FindSession(t)
    \/ \E t \in TaskIds : UpdateSessionTranscript(t)

Spec == InitKey /\ [][Next]_vars

-----------------------------------------------------------------------------
(* Specification of the chunk store with one handler at a time, and the    *)
(* session routes                                                          *)

\* the session routes and the chunk handlers, entered while no handler is running
SeqDELETE == \E id \in SessionIds : Busy = {} /\ DELETE(id)

SeqPATCH ==
    \E id \in SessionIds, x \in PatchTranscripts : Busy = {} /\ PATCH(id, [transcript |-> x])

SeqTranscriptChunk ==
    \E t \in TaskIds, id \in SessionIds, i \in Indices, x \in SeqTranscripts :
        Busy = {} /\ TranscriptChunkEvent(t, id, i, x)

SeqProcessAudioChunk ==
    \E t \in TaskIds, id \in SessionIds, i \in Indices, d \in {5, 30}, x \in SeqTranscripts :
        Busy = {} /\ ProcessAudioChunkStore(t, id, i, d, x)

NextSeq ==
    \/ \E id \in SessionIds : CreateSession(id)
    \/ SeqDELETE
    \/ SeqPATCH
    \/ SeqTranscriptChunk
    \/ SeqProcessAudioChunk
    \/ \E t \in TaskIds : StoreChunk(t)
    \/ \E t \in TaskIds : FindSession(t)
    \/ \E t \in TaskIds : UpdateSessionTranscript(t)

SpecSeq == InitKey /\ [][NextSeq]_vars

-----------------------------------------------------------------------------
(* Specification of the session lifecycle as the shipped client drives it:  *)
(* create, sequential transcript chunks, stop requests, summary runs, delete *)

LifeTranscripts == {<<"a">>, <<"[", "b", "]">>}

LifeTranscriptChunk ==
    \E t \in TaskIds, id \in SessionIds, x \in LifeTranscripts :
        Busy = {} /\ TranscriptChunkEvent(t, id, 0, x)

NextLife ==
    \/ \E id \in SessionIds : CreateSession(id)
    \/ SeqDELETE
    \/ LifeTranscriptChunk
    \/ \E t \in TaskIds : StoreChunk(t)
    \/ \E t \in TaskIds : FindSession(t)
    \/ \E t \in TaskIds : UpdateSessionTranscript(t)
    \/ \E k \in StopIds, id \in SessionIds : StopFindUnique(k, id)
    \/ \E k \in StopIds : StopUpdate(k)
    \/ \E k \in StopIds : SummaryFindMany(k)
    \/ \E k \in StopIds, ok \in BOOLEAN : SummaryGenerate(k, ok)
    \/ \E k \in StopIds : SummaryUpdate(k)
    \/ \E k \in StopIds : SummaryFailed(k)

SpecLife == InitKey /\ [][NextLife]_vars

(* The same with PATCH /api/sessions/[id] giving a status *)

PatchStatus ==
    \E id \in SessionIds, s \in SessionStatus : Busy = {} /\ PATCH(id, [status |-> s])

NextApi ==
    \/ NextLife
    \/ PatchStatus

SpecApi == InitKey /\ [][NextApi]_vars

-----------------------------------------------------------------------------
(* Specifications of the streaming paths: one recording of one session        *)

\* what the backend connection may send as a transcript: speech, or its own placeholder
WsTranscripts == {<<"a">>, <<"No speech detected">>}

\* processAudioChunk from the choice of the backend to the running transcript
NextProcessAudioChunk ==
    \/ \E t \in TaskIds : WsStreamAudioChunk(t)
    \/ \E id \in SessionIds, x \in WsTranscripts : WsTranscript(id, x)
    \/ \E t \in TaskIds : WsResult(t)
    \/ \E t \in TaskIds : WsTimeout(t)
    \/ \E t \in TaskIds : RestStreamAudioChunk(t)
    \/ \E t \in TaskIds : StoreChunk(t)
    \/ \E t \in TaskIds : FindSession(t)
    \/ \E t \in TaskIds : UpdateSessionTranscript(t)

\* the Socket.IO path: session:start and session:stop, the backend connection, the
\* client recorder with pause and resume, audio:chunk
NextStream ==
    \/ \E id \in SessionIds : CreateSession(id)
    \/ \E id \in SessionIds, m \in {"MIC", "TAB"} : SessionStart(id, m)
    \/ \E id \in SessionIds : SessionStop(id)
    \/ \E id \in SessionIds : GeminiWsOpen(id)
    \/ \E id \in SessionIds : GeminiWsClose(id)
    \/ \E id \in SessionIds : SessionPause(id)
    \/ \E id \in SessionIds : SessionResume(id)
    \/ \E id \in SessionIds : DataAvailable(id)
    \/ \E t \in TaskIds, id \in SessionIds, x \in SecondaryAnswers : AudioChunk(t, id, x)
    \/ \E t \in TaskIds : AudioChunkThen(t)
    \/ NextProcessAudioChunk

SpecStream == Init /\ [][NextStream]_vars

BufAnswers == {<<"a">>}

\* the /api/audio-stream path: session:start, the backend connection, the chunk
\* buffer
NextBuf ==
    \/ \E id \in SessionIds : CreateSession(id)
    \/ \E id \in SessionIds, m \in {"MIC", "TAB"} : SessionStart(id, m)
    \/ \E id \in SessionIds : GeminiWsOpen(id)
    \/ \E id \in SessionIds : AudioWsConnect(id)
    \/ AudioWsStart
    \/ \E n \in AudioSizes, x \in BufAnswers : AudioWsBinary(n, x)
    \/ \E x \in BufAnswers : AudioWsStop(x)
    \/ \E t \in TaskIds : AudioWsResume(t)
    \/ \E x \in BufAnswers : AudioWsClose(x)
    \/ Tick
    \/ NextProcessAudioChunk

SpecBuf == Init /\ [][NextBuf]_vars

\* the /api/audio-stream path while the recording is paused and resumed: the
\* recorder that feeds the connection is not the one pauseRecording pauses
NextPause ==
    \/ \E id \in SessionIds : CreateSession(id)
    \/ \E id \in SessionIds, m \in {"MIC", "TAB"} : SessionStart(id, m)
    \/ \E id \in SessionIds : GeminiWsOpen(id)
    \/ \E id \in SessionIds : SessionPause(id)
    \/ \E id \in SessionIds : SessionResume(id)
    \/ \E id \in SessionIds : AudioWsConnect(id)
    \/ AudioWsStart
    \/ \E n \in AudioSizes, x \in BufAnswers : AudioWsBinary(n, x)
    \/ \E t \in TaskIds : AudioWsResume(t)
    \/ NextProcessAudioChunk

SpecPause == Init /\ [][NextPause]_vars

\* the same with session:pause and session:resume events as any socket of the session
\* may send them
NextRelay ==
    \/ NextPause
    \/ \E id \in SessionIds : SessionPauseEvent(id)
    \/ \E id \in SessionIds : SessionResumeEvent(id)

SpecRelay == Init /\ [][NextRelay]_vars

-----------------------------------------------------------------------------
(* Specification of a recording with its stop request: the audio chunks of   *)
(* the recording client, the backends failing or answering, and one stop      *)
(* request with its summary run                                              *)

NextRecording ==
    \/ \E id \in SessionIds : CreateSession(id)
    \/ \E id \in SessionIds : SessionStart(id, "MIC")
    \/ \E id \in SessionIds : GeminiWsOpen(id)
    \/ \E id \in SessionIds : GeminiWsClose(id)
    \/ \E id \in SessionIds : DataAvailable(id)
    \/ \E t \in TaskIds, id \in SessionIds, x \in SecondaryAnswers : AudioChunk(t, id, x)
    \/ \E t \in TaskIds : AudioChunkThen(t)
    \/ NextProcessAudioChunk
    \/ \E id \in SessionIds : StopFindUnique(1, id)
    \/ \E k \in StopIds : StopUpdate(k)
    \/ \E k \in StopIds : SummaryFindMany(k)
    \/ \E k \in StopIds, ok \in BOOLEAN : SummaryGenerate(k, ok)
    \/ \E k \in StopIds : SummaryUpdate(k)
    \/ \E k \in StopIds : SummaryFailed(k)

SpecRecording == Init /\ [][NextRecording]_vars

-----------------------------------------------------------------------------
(* Specification of the end of a recording: audio chunks, session:stop, and  *)
(* what the closed WebSocket still delivers                                  *)

NextClosing ==
    \/ \E id \in SessionIds : CreateSession(id)
    \/ \E id \in SessionIds : SessionStart(id, "MIC")
    \/ \E id \in SessionIds : SessionStop(id)
    \/ \E id \in SessionIds : GeminiWsOpen(id)
    \/ \E id \in SessionIds, x \in WsTranscripts : WsTranscriptClosing(id, x)
    \/ \E id \in SessionIds : GeminiWsClosed(id)
    \/ \E id \in SessionIds : DataAvailable(id)
    \/ \E t \in TaskIds, id \in SessionIds, x \in SecondaryAnswers : AudioChunk(t, id, x)
    \/ \E t \in TaskIds : AudioChunkThen(t)
    \/ NextProcessAudioChunk

SpecClosing == InitKey /\ [][NextClosing]_vars

\* the steps processAudioChunk takes by itself: its timer, and what follows each await
\* once the call has returned; a text event of the backend is not among them
ProcessAudioChunkStep(t) ==
    \/ WsStreamAudioChunk(t)
    \/ WsResult(t)
    \/ WsTimeout(t)
    \/ RestStreamAudioChunk(t)
    \/ StoreChunk(t)
    \/ FindSession(t)
    \/ UpdateSessionTranscript(t)

\* the event loop runs every timer and every continuation that is due
SpecClosingFair == SpecClosing /\ \A t \in TaskIds : WF_vars(ProcessAudioChunkStep(t))

-----------------------------------------------------------------------------
(* Specification of the backend connections: the session events as the      *)
(* server accepts them, a session:start arriving again included             *)

ConnSessionStart ==
    \E id \in SessionIds, m \in {"MIC", "TAB"} :
        startCount[id] < MaxConnStarts /\ HandleSessionStart(id, m)

NextConn ==
    \/ \E id \in SessionIds : CreateSession(id)
    \/ ConnSessionStart
    \/ \E id \in SessionIds : SessionStop(id)
    \/ \E id \in SessionIds : GeminiWsOpen(id)
    \/ \E id \in SessionIds : GeminiWsClose(id)
    \/ \E id \in SessionIds : SessionPause(id)
    \/ \E id \in SessionIds : SessionResume(id)

SpecConn == Init /\ [][NextConn]_vars

-----------------------------------------------------------------------------
(* Specification of the client socket going away: the session events of a     *)
(* connected client, the backend connection, and the disconnect               *)

\* the events a client sends over its socket, while the socket is connected
ConnectedSessionStart ==
    \E id \in SessionIds, m \in {"MIC", "TAB"} : ~disconnected[id] /\ SessionStart(id, m)

ConnectedSessionStop == \E id \in SessionIds : ~disconnected[id] /\ SessionStop(id)

ConnectedSessionPause == \E id \in SessionIds : ~disconnected[id] /\ SessionPause(id)

ConnectedSessionResume == \E id \in SessionIds : ~disconnected[id] /\ SessionResume(id)

NextDisconnect ==
    \/ \E id \in SessionIds : CreateSession(id)
    \/ ConnectedSessionStart
    \/ ConnectedSessionStop
    \/ \E id \in SessionIds : GeminiWsOpen(id)
    \/ \E id \in SessionIds : GeminiWsClose(id)
    \/ ConnectedSessionPause
    \/ ConnectedSessionResume
    \/ \E id \in SessionIds : Disconnect(id)

SpecDisconnect == InitKey /\ [][NextDisconnect]_vars

\* the server runs the handler of every event that has arrived: the end of the backend
\* connection's handshake, and the disconnect of the client socket; neither the client nor
\* the backend is bound to do anything more
SpecDisconnectFair ==
    SpecDisconnect /\ \A id \in SessionIds : WF_vars(GeminiWsOpen(id)) /\ WF_vars(Disconnect(id))

-----------------------------------------------------------------------------
(* Reading the running transcript as blocks *)

RangeAtoms == {TimeRange(i * d, i * d + d)[2] : i \in Indices, d \in {5, 30}}

HeaderAt(s, p) == p + 1 <= Len(s) /\ s[p] = "[" /\ s[p + 1] \in RangeAtoms

HeaderPositions(s) == {p \in 1..Len(s) : HeaderAt(s, p)}

NumBlocks(s) == Cardinality(HeaderPositions(s))

\* the text of the first block headed [startTime s - endTime s]: what follows the
\* header up to the next header or the end, without the surrounding white space
BlockText(s, startTime, endTime) ==
    LET at == {p \in HeaderPositions(s) : SubSeq(s, p, p + 1) = TimeRange(startTime, endTime)}
        p == CHOOSE q \in at : \A r \in at : q <= r
        later == {q \in HeaderPositions(s) : q > p}
        stop == IF later = {} THEN Len(s) + 1
                ELSE CHOOSE q \in later : \A r \in later : q <= r
    IN  Trim(SubSeq(s, p + 2, stop - 1))

SameSubmission(e, f) ==
    /\ e.path = f.path
    /\ e.sessionId = f.sessionId
    /\ e.chunkIndex = f.chunkIndex
    /\ e.text = f.text

-----------------------------------------------------------------------------
(* Claims *)

\* C1: when the same submission (s, i, t) has been handled twice in sequence (the
\* second after the first completed, no other handler running meanwhile, the text
\* accepted and the session present), exactly one TranscriptChunk row exists for
\* (s, i) and its text is what it was after the first handling.
C1_IdempotentTwice ==
    (/\ Len(hist) = 2
     /\ SameSubmission(hist[1], hist[2])
     /\ hist[1].alone /\ hist[2].alone
     /\ hist[1].outcome \notin {"filtered", "error"}
     /\ hist[2].outcome \notin {"filtered", "error"})
    => (hist[2].nrows = 1 /\ hist[2].rows = hist[1].rows)

\* C2: at most one TranscriptChunk row exists per (sessionId, chunkIndex).
C2_OneRowPerIndex ==
    \A id \in SessionIds, i \in Indices : Cardinality(ChunkRows(id, i)) <= 1

\* C3: once all merges of a session have finished, its running transcript contains
\* the text of every chunk that was merged (no lost update).
C3_NoLostUpdate ==
    \A id \in SessionIds :
        (Busy = {} /\ appSession[id].row = "present")
        => \A x \in merged[id] : Includes(appSession[id].transcript, Trim(x))

\* C4: a merge into a transcript that already holds a block with the header
\* [Ss - Es] leaves the number of blocks unchanged, and that block's text becomes
\* its previous text, one space, then the new text.
C4_MergeIntoExistingBlock ==
    (/\ hist # <<>>
     /\ hist[Len(hist)].outcome = "merged"
     /\ HasTimeRange(hist[Len(hist)].pre, hist[Len(hist)].startTime, hist[Len(hist)].endTime)
     /\ BlockText(hist[Len(hist)].pre, hist[Len(hist)].startTime, hist[Len(hist)].endTime) # <<>>)
    => LET e == hist[Len(hist)]
       IN  /\ NumBlocks(e.post) = NumBlocks(e.pre)
           /\ BlockText(e.post, e.startTime, e.endTime) =
                  BlockText(e.pre, e.startTime, e.endTime) \o <<" ">> \o Trim(e.text)

\* C5: the running transcript of a session still contains every text that was ever
\* merged into it, until the session is deleted.
C5_AppendOnly ==
    \A id \in SessionIds :
        appSession[id].row = "present"
        => \A x \in merged[id] : Includes(appSession[id].transcript, Trim(x))

C7_SecondaryFallbackStores ==
    \A n \in 1..Len(hist) :
        (/\ apiKey
         /\ hist[n].path = "processAudioChunk"
         /\ hist[n].session = "present"
         /\ hist[n].configured # 0
         /\ ~hist[n].primary
         /\ AcceptedSecondary(hist[n].secondary) /\ ~IsPlaceholder(hist[n].secondary)
         /\ hist[n].outcome # "error")
        => hist[n].nrows >= 1

Terminal == {"COMPLETED", "FAILED"}

\* C9: a stop request moves the session to PROCESSING, and once a session has been
\* stopped no step sets its status to RECORDING.
C9_StopIrreversible ==
    [][\A id \in SessionIds :
          appSession'[id].row = "present" =>
              /\ (stopped'[id] /\ ~stopped[id]) => appSession'[id].status = "PROCESSING"
              /\ stopped[id] => appSession'[id].status # "RECORDING"]_vars

\* C10: once the status of a session is COMPLETED or FAILED, no step changes it to
\* PROCESSING or to an earlier state.
C10_TerminalStaysTerminal ==
    [][\A id \in SessionIds :
          (/\ appSession[id].row = "present"
           /\ appSession'[id].row = "present"
           /\ appSession[id].status \in Terminal)
          => appSession'[id].status \in Terminal]_vars

\* C11: for a started session, session:resume while it is not paused and session:pause
\* while it is paused already cause no session:resumed / session:paused notification.
C11_NoRedundantNotification ==
    (notified.event # "none" /\ notified.started) => ~notified.redundant

\* the known non-content patterns of processAudioChunk and of the transcript:chunk filter
NonContent(text) ==
    \/ IsPlaceholder(text)
    \/ IsPlaceholderTranscript(text)
    \/ Includes(text, <<"[", "Chunk">>)

\* C12: no TranscriptChunk row and no running transcript contains placeholder text, and
\* no transcript:updated event carries it.
C12_PlaceholderNeverStoredOrEmitted ==
    /\ \A r \in transcriptChunk : ~NonContent(r.transcript)
    /\ \A id \in SessionIds : ~NonContent(appSession[id].transcript)
    /\ updated.event = "transcript:updated" => ~NonContent(updated.transcript)

\* C13: a chunk whose primary and secondary path have both failed is dropped: its
\* handling has written no TranscriptChunk row and no running transcript, no row and no
\* running transcript holds a "[Chunk ..." note in its place, and no handling calls the
\* primary or the secondary backend more than once.
C13_BothFailDropped ==
    /\ \A n \in 1..Len(hist) :
           /\ hist[n].primaryAttempts <= 1
           /\ hist[n].secondaryAttempts <= 1
           /\ hist[n].outcome = "dropped" => hist[n].writes = 0
    /\ \A t \in TaskIds : task[t].primaryAttempts <= 1 /\ task[t].secondaryAttempts <= 1
    /\ \A r \in transcriptChunk : ~Includes(r.transcript, <<"[", "Chunk">>)
    /\ \A id \in SessionIds : ~Includes(appSession[id].transcript, <<"[", "Chunk">>)

\* both paths were tried for a chunk of an existing session, both failed, and the chunk
\* was dropped
C13_Witness ==
    \E n \in 1..Len(hist) :
        /\ hist[n].outcome = "dropped"
        /\ hist[n].session = "present"
        /\ hist[n].primaryAttempts = 1
        /\ hist[n].secondaryAttempts = 1
        /\ hist[n].nrows = 0

\* C14: a session that the summary run has completed holds the summary text, and a
\* session that the summary run has marked FAILED holds no summary.
C14_SummarySettles ==
    \A id \in SessionIds :
        appSession[id].row = "present" =>
            /\ appSession[id].status = "COMPLETED" => appSession[id].summary # <<>>
            /\ appSession[id].status = "FAILED" => appSession[id].summary = <<>>

\* C15: generateSummary is invoked at most once per session, whatever the number of stop
\* requests.
C15_SummaryOncePerSession ==
    \A id \in SessionIds :
        Cardinality({k \in StopIds : summaryJob[k].called /\ summaryJob[k].sessionId = id}) <= 1

\* text that is blank, a bracketed marker, or one of the known non-content patterns
PlaceholderText(text) ==
    \/ Trim(text) = <<>>
    \/ Head(Trim(text)) = "["
    \/ NonContent(text)

\* C16: generateSummary is invoked only if the session has at least one TranscriptChunk
\* with non-placeholder text.
C16_SummaryOnlyWithContent ==
    [][\A k \in StopIds :
          (summaryJob'[k].called /\ ~summaryJob[k].called)
          => \E r \in transcriptChunk :
                 r.sessionId = summaryJob'[k].sessionId /\ ~PlaceholderText(r.transcript)]_vars

\* a summary run has invoked generateSummary while another one, which found only a
\* bracketed marker, has not
C16_Witness ==
    \E k, j \in StopIds :
        /\ summaryJob[k].called
        /\ summaryJob[j].pc \in {"update", "done"} /\ ~summaryJob[j].called
        /\ summaryJob[j].summary = NoTranscriptAvailable

\* C17: the stop acknowledgment is returned without waiting for the summary: whenever a
\* summary run exists, whatever its progress or failure, its stop request has already been
\* answered with success, and a given answer never changes.
C17_StopAckBeforeSummary ==
    \A k \in StopIds :
        summaryJob[k].pc # "idle"
        => stopRequest[k].pc = "done" /\ stopRequest[k].response = 200

\* the stop request has been answered with success, the session is still PROCESSING and
\* its summary run has just failed
C17_Witness ==
    \E k \in StopIds :
        /\ stopRequest[k].response = 200
        /\ summaryJob[k].pc = "failed"
        /\ appSession[stopRequest[k].id].row = "present"
        /\ appSession[stopRequest[k].id].status = "PROCESSING"

\* C18: when a row exists for (sessionId, chunkIndex) and the incoming text is new, a
\* transcript:chunk result replaces the stored text and a processAudioChunk result is
\* appended to it after one space.
C18_UpdateRuleByPath ==
    [][\A t \in TaskIds :
          LET tk == task[t]
              ex == tk.existingChunk
          IN  (/\ tk.pc = "chunk" /\ task'[t].pc # "chunk"
               /\ ex # NoChunk
               /\ ~Includes(Trim(ex.transcript), Trim(tk.text)))
              => \A r \in transcriptChunk' :
                     r.id = ex.id
                     => r.transcript =
                            IF tk.path = "transcript:chunk"
                            THEN Trim(tk.text)
                            ELSE Trim(ex.transcript) \o <<" ">> \o Trim(tk.text)]_vars

\* C19: when a row exists for (sessionId, chunkIndex) and the incoming text is contained
\* in (or equal to) the stored text, no step of the handling changes the chunk rows or the
\* session's running transcript, on either path.
C19_ContainedTextIsNoOp ==
    [][\A t \in TaskIds :
          LET tk == task[t]
              ex == tk.existingChunk
          IN  (/\ tk.pc \in {"chunk", "session", "transcript"}
               /\ task'[t] # tk
               /\ ex # NoChunk
               /\ Includes(Trim(ex.transcript), Trim(tk.text)))
              => /\ transcriptChunk' = transcriptChunk
                 /\ appSession'[tk.sessionId].transcript = appSession[tk.sessionId].transcript]_vars

\* C20: once session:stop has been handled for a session, every primary-backend
\* connection of the session is closed and the session has no entry in the WebSocket
\* registry, the REST registry or the session-metadata map.
C20_StopReleasesBackend ==
    \A id \in SessionIds :
        (startCount[id] > 0 /\ sessionMetadata[id] = 0)
        => /\ geminiWs[id] = "none"
           /\ id \notin restSessions
           /\ orphaned[id] = 0

\* C21: when the WebSocket of a session reports an error or closes during recording, its
\* registry entry is removed in the same step: no state has an entry for a dead connection.
C21_NoEntryForDeadConnection ==
    \A id \in SessionIds : geminiWs[id] # "closed"

\* C22: a failure while a chunk is processed (backend unavailable, timeout, remote error,
\* empty or placeholder result) never changes the session's status; the status becomes
\* FAILED only in the step in which a failed summary run writes it.
C22_ChunkFailureNeverFailsSession ==
    [][\A id \in SessionIds :
          /\ (\E t \in TaskIds : task'[t] # task[t])
             => appSession'[id].status = appSession[id].status
          /\ (appSession'[id].status = "FAILED" /\ appSession[id].status # "FAILED")
             => \E k \in StopIds : /\ summaryJob[k].sessionId = id
                                    /\ summaryJob[k].pc = "failed"
                                    /\ summaryJob'[k].pc = "done"]_vars

\* a chunk whose two backends both failed has been dropped and the session is still
\* RECORDING
C22_Witness ==
    \E n \in 1..Len(hist) :
        /\ hist[n].outcome = "dropped"
        /\ hist[n].primaryAttempts = 1 /\ hist[n].secondaryAttempts = 1
        /\ appSession[hist[n].sessionId].row = "present"
        /\ appSession[hist[n].sessionId].status = "RECORDING"

\* C23: after session:pause has been handled for a recording session its persisted status
\* is PAUSED, and after session:resume it is RECORDING again.
C23_PauseResumePersisted ==
    \A id \in SessionIds :
        (appSession[id].row = "present" /\ sessionMetadata[id] # 0)
        => appSession[id].status = IF paused[id] THEN "PAUSED" ELSE "RECORDING"

\* C24: once a session is deleted no TranscriptChunk row of it exists, in any later state,
\* also when a chunk handling that began before the delete ends after it.
C24_NoChunkOfDeletedSession ==
    \A id \in SessionIds :
        appSession[id].row = "deleted" => \A r \in transcriptChunk : r.sessionId # id

\* the session is deleted and a chunk handling whose findFirst had found a row of it
\* has ended after the delete, its write refused
C24_Witness ==
    \E id \in SessionIds :
        /\ appSession[id].row = "deleted"
        /\ \E n \in 1..Len(hist) : /\ hist[n].sessionId = id
                                    /\ hist[n].outcome = "error"
                                    /\ hist[n].found

\* C25: at most one chunk of a session at a time is waiting for a text event of the
\* session's primary connection.
C25_OneAwaitingPrimary ==
    \A id \in SessionIds :
        Cardinality({t \in TaskIds : task[t].pc = "wsWait" /\ task[t].sessionId = id}) <= 1

C27_LateTextDiscarded == ~updated.late

\* C28: session:stop cancels no chunk already dispatched: a chunk that was sent to the
\* primary backend before the stop and whose text event the backend delivers after it is
\* stored as a TranscriptChunk when its handling ends.
C28_StopCancelsNoChunk ==
    \A n \in 1..Len(hist) :
        (hist[n].unheard /\ hist[n].session = "present")
        => hist[n].outcome \in {"merged", "stored", "skipped"} /\ hist[n].nrows >= 1

\* C29: when no text event arrives within the timeout after a chunk is sent, the primary
\* attempt ends as a soft failure, not as an exception, and the chunk is then sent to the
\* secondary backend exactly once.
C29_TimeoutFallsThroughOnce ==
    /\ \A t \in TaskIds :
           task[t].timedOut
           => /\ task[t].primaryAttempts = 1
              /\ task[t].pc \notin {"ws", "wsWait", "wsGot", "restOnly"}
              /\ task[t].secondaryAttempts = IF task[t].pc = "restFallback" THEN 0 ELSE 1
    /\ \A n \in 1..Len(hist) :
           hist[n].timedOut
           => /\ hist[n].primaryAttempts = 1
              /\ hist[n].secondaryAttempts = 1
              /\ hist[n].secondaryRequests = 1
              /\ hist[n].outcome # "error"

RECURSIVE BlockRanges(_, _)
BlockRanges(s, p) ==
    IF p > Len(s) THEN <<>>
    ELSE IF HeaderAt(s, p) THEN <<s[p + 1]>> \o BlockRanges(s, p + 2)
    ELSE BlockRanges(s, p + 1)

\* every block header but the first one is preceded by a blank line
BlankLineSeparated(s) ==
    \A p \in HeaderPositions(s) :
        p > 1 => p >= 3 /\ s[p - 2] = "\n" /\ s[p - 1] = "\n"

\* C31: after every merge the blocks of the running transcript are in first-seen order of
\* their time ranges (a range seen for the first time is appended as a new block after all
\* existing blocks, a range seen before leaves the order as it is), and consecutive blocks
\* are separated by a blank line.
C31_FirstSeenOrderBlankLine ==
    \A n \in 1..Len(hist) :
        hist[n].outcome = "merged"
        => LET e == hist[n]
           IN  /\ BlockRanges(e.post, 1) =
                      IF HasTimeRange(e.pre, e.startTime, e.endTime)
                      THEN BlockRanges(e.pre, 1)
                      ELSE Append(BlockRanges(e.pre, 1), TimeRange(e.startTime, e.endTime)[2])
               /\ BlankLineSeparated(e.post)

\* the running transcript s with text appended, after one space, to the text of its block
\* headed [startTime s - endTime s], and nothing else of s changed
MergedInPlace(s, startTime, endTime, text) ==
    LET at == {p \in HeaderPositions(s) : SubSeq(s, p, p + 1) = TimeRange(startTime, endTime)}
        p == CHOOSE q \in at : \A r \in at : q <= r
        later == {q \in HeaderPositions(s) : q > p}
        stop == IF later = {} THEN Len(s) + 1
                ELSE CHOOSE q \in later : \A r \in later : q <= r
        body == SubSeq(s, p + 2, stop - 1)
        separator == SubSeq(body, Len(TrimRight(body)) + 1, Len(body))
    IN  SubSeq(s, 1, p + 1) \o <<"\n">>
            \o (IF Trim(body) # <<>> THEN Trim(body) \o <<" ">> ELSE <<>>) \o Trim(text)
            \o separator \o SubSeq(s, stop, Len(s))

\* C32: a merge into an existing block of the running transcript appends the text at the
\* end of that block in place, and every other block (header, text, order, blank-line
\* separators) is after the merge what it was before it.
C32_MergeLeavesOtherBlocks ==
    \A n \in 1..Len(hist) :
        (/\ hist[n].outcome = "merged"
         /\ \E p \in HeaderPositions(hist[n].pre) :
                SubSeq(hist[n].pre, p, p + 1) = TimeRange(hist[n].startTime, hist[n].endTime))
        => hist[n].post =
               MergedInPlace(hist[n].pre, hist[n].startTime, hist[n].endTime, hist[n].text)

\* the audio chunks of a session that processAudioChunk is handling or has handled: index,
\* the chunk duration sessionMetadata held when the chunk came, and the length of the time
\* range the chunk was given
ChunkDurations(id) ==
    {[chunkIndex |-> task[t].chunkIndex, configured |-> task[t].configured,
      duration |-> task[t].endTime - task[t].startTime] :
         t \in {u \in TaskIds : /\ task[u].pc # "idle"
                                /\ task[u].path = "processAudioChunk"
                                /\ task[u].sessionId = id}}
    \cup
    {[chunkIndex |-> hist[n].chunkIndex, configured |-> hist[n].configured,
      duration |-> hist[n].endTime - hist[n].startTime] :
         n \in {k \in 1..Len(hist) : /\ hist[k].path = "processAudioChunk"
                                      /\ hist[k].sessionId = id}}

\* C33: the chunk duration of a session is fixed at its start and is the same for every
\* chunk: a chunk that comes while the session's duration is D has a time range of length
\* D, and so has every later chunk of the session, those handled after session:stop
\* included.
C33_OneChunkDuration ==
    \A id \in SessionIds :
        \A x, y \in ChunkDurations(id) :
            x.configured # 0
            => /\ x.duration = x.configured
               /\ y.chunkIndex > x.chunkIndex => y.duration = x.configured

-----------------------------------------------------------------------------
(* Specification of two sessions recorded side by side: their session events, *)
(* their audio chunks and the primary backend's answers interleave; the       *)
(* recording of the first one is paused and resumed while it is started       *)

\* pauseRecording and resumeRecording of the first session's client while it is started
StartedSessionPause == \E id \in SessionIds : sessionMetadata[id] # 0 /\ SessionPause(id)

StartedSessionResume == \E id \in SessionIds : sessionMetadata[id] # 0 /\ SessionResume(id)

NextIsolation ==
    \/ \E id \in AllSessionIds : CreateSession(id)
    \/ \E id \in AllSessionIds : SessionStart(id, "MIC")
    \/ \E id \in AllSessionIds : SessionStop(id)
    \/ \E id \in AllSessionIds : GeminiWsOpen(id)
    \/ StartedSessionPause
    \/ StartedSessionResume
    \/ \E id \in AllSessionIds : DataAvailable(id)
    \/ \E t \in TaskIds, id \in AllSessionIds : AudioChunk(t, id, <<>>)
    \/ \E t \in TaskIds : AudioChunkThen(t)
    \/ \E t \in TaskIds : WsStreamAudioChunk(t)
    \/ \E id \in AllSessionIds : WsTranscript(id, <<"a">>)
    \/ \E t \in TaskIds : WsResult(t)
    \/ \E t \in TaskIds : WsTimeout(t)
    \/ \E t \in TaskIds : RestStreamAudioChunk(t)
    \/ \E t \in TaskIds : StoreChunk(t)
    \/ \E t \in TaskIds : FindSession(t)
    \/ \E t \in TaskIds : UpdateSessionTranscript(t)

SpecIsolation == InitKey /\ [][NextIsolation]_vars

\* the step is an event of session id, or a step of the handling of one of its chunks
StepOf(id) ==
    \/ \E t \in TaskIds : /\ task'[t] # task[t]
                          /\ id \in {task[t].sessionId, task'[t].sessionId}
    \/ appSession'[id].row # appSession[id].row
    \/ startCount'[id] # startCount[id]
    \/ (sessionMetadata[id] # 0 /\ sessionMetadata'[id] = 0)
    \/ paused'[id] # paused[id]

\* the registry entries, the session metadata, the TranscriptChunk rows and the running
\* transcript of session id are after the step what they were before it
SessionUnchanged(id) ==
    /\ geminiWs'[id] = geminiWs[id]
    /\ (id \in restSessions') = (id \in restSessions)
    /\ sessionMetadata'[id] = sessionMetadata[id]
    /\ {r \in transcriptChunk' : r.sessionId = id} = {r \in transcriptChunk : r.sessionId = id}
    /\ appSession'[id].transcript = appSession[id].transcript

\* C34: sessions are isolated: a start, chunk, pause, resume or stop event of session A,
\* and every step of the handling of a chunk of A, leaves the registry entries, the
\* session metadata, the TranscriptChunk rows and the running transcript of every other
\* session B unchanged.
C34_SessionsIsolated ==
    [][\A A, B \in AllSessionIds : (A # B /\ StepOf(A)) => SessionUnchanged(B)]_vars

\* one session has been stopped after its chunk was stored, while the other one still
\* holds its open connection, its metadata and a stored chunk
C34_Witness ==
    \E A, B \in AllSessionIds :
        /\ A # B
        /\ startCount[A] = 1 /\ sessionMetadata[A] = 0 /\ geminiWs[A] = "none"
        /\ \E r \in transcriptChunk : r.sessionId = A
        /\ sessionMetadata[B] # 0 /\ geminiWs[B] = "open"
        /\ \E r \in transcriptChunk : r.sessionId = B
        /\ appSession[B].transcript # <<>>

\* C35: a single text event of a session's primary connection is attributed to at most
\* one chunk: no step resolves the waits of two chunks of different indices with its text.
C35_OneChunkPerTextEvent ==
    [][\A t, u \in TaskIds :
          (/\ task[t].pc = "wsWait" /\ task'[t].pc = "wsGot"
           /\ task[u].pc = "wsWait" /\ task'[u].pc = "wsGot"
           /\ task'[t].text = task'[u].text)
          => task[t].chunkIndex = task[u].chunkIndex]_vars

\* C36: the two stores are consistent in every quiescent state (no chunk handling in
\* progress): for every TranscriptChunk row of a session, the session's running transcript
\* holds a block headed by the row's time range, and the text of that block contains the
\* row's text.
C36_StoresConsistent ==
    \A id \in SessionIds :
        (Busy = {} /\ appSession[id].row = "present")
        => \A r \in transcriptChunk :
               r.sessionId = id
               => /\ HasTimeRange(appSession[id].transcript, r.startTime, r.endTime)
                  /\ Includes(BlockText(appSession[id].transcript, r.startTime, r.endTime),
                              Trim(r.transcript))

C38_OneConnectionPerSession ==
    \A id \in SessionIds :
        orphaned[id] + (IF geminiWs[id] \in {"connecting", "open"} THEN 1 ELSE 0) <= 1

\* C39: the summary of a session covers all of its stored chunks: once a summary run has
\* read the session's chunks, no step creates or changes a TranscriptChunk row of the
\* session or modifies its running transcript.
C39_NoWriteAfterSummaryRead ==
    [][\A id \in SessionIds :
          (\E k \in StopIds : /\ summaryJob[k].sessionId = id
                              /\ summaryJob[k].pc \in {"generate", "update", "failed", "done"})
          => /\ {r \in transcriptChunk' : r.sessionId = id}
                    = {r \in transcriptChunk : r.sessionId = id}
             /\ appSession'[id].transcript = appSession[id].transcript]_vars

\* C40: every registered primary-backend connection is eventually released: once the
\* client socket of a started session has disconnected, the session eventually has no
\* registry entry and no session metadata.
C40_DisconnectReleases ==
    \A id \in SessionIds :
        disconnected[id]
        ~> (geminiWs[id] = "none" /\ id \notin restSessions /\ sessionMetadata[id] = 0)

====
